---- MODULE Spec2Model ----
(***************************************************************************)
(* Trade store: asynchronous ingestion / validation pipeline.              *)
(*                                                                         *)
(*   admission   app/services/trade_service.py  (TradeService.ingest_trade)*)
(*   channel     app/kafka/producer.py, app/kafka/consumer.py (consume)    *)
(*   consumption app/kafka/consumer.py          (handle_message)           *)
(*   validators  app/validators/*.py                                       *)
(*   record store    app/repositories/trade_repository.py                  *)
(*   lifecycle store app/repositories/request_repository.py                *)
(***************************************************************************)
EXTENDS Integers, Sequences, FiniteSets, TLC

(***************************************************************************)
(* Bounds of the model.                                                    *)
(***************************************************************************)
MaxRequests == 2        \* ingest_trade calls (request ids generated)
MaxVersion == 2         \* submitted versions are 1..MaxVersion
MaxDay == 1             \* the clock runs over days 0..MaxDay
MaxFaults == 1          \* disruptions: store / channel operations that raise, consumer stops
NumWorkers == 2         \* consumer processes in the consumer group
MaxUnitVersion == 7     \* versions drawn for the validators in isolation
MaxUnitDay == 4         \* days drawn for the validators in isolation
MaxUnitReplay == 2      \* envelopes handled before an operation is applied in isolation
MaxUnitAge == 8         \* days since create_pending of a lifecycle record read or updated in isolation

(***************************************************************************)
(* Program constants.                                                      *)
(***************************************************************************)
TTL_SECONDS == 604800       \* _TTL_SECONDS = 7 * 24 * 3600
RETRY_AFTER_SECONDS == 60   \* TradeTemporaryFailure.retry_after_seconds
NUM_PARTITIONS == 3         \* NewTopic(num_partitions=3)
SecondsPerDay == 86400

\* Optional[...]: None is the empty tuple, a present value x is <<x>>
None == <<>>
Some(x) == <<x>>

Versions == 1..MaxVersion
RequestIds == 1..MaxRequests
Partitions == 0..(NUM_PARTITIONS - 1)

(***************************************************************************)
(* Calendar dates (datetime.date): compared field by field, year first.    *)
(* Day n of the model's clock is the n-th day from 2026-12-30, so that the *)
(* window crosses a month and a year boundary.                             *)
(***************************************************************************)
MkDate(y, m, d) == [year |-> y, month |-> m, day |-> d]

DateOfDay(n) == IF n <= 1 THEN MkDate(2026, 12, 30 + n) ELSE MkDate(2027, 1, n - 1)

DateLT(a, b) ==
    \/ a.year < b.year
    \/ a.year = b.year /\ a.month < b.month
    \/ a.year = b.year /\ a.month = b.month /\ a.day < b.day

DigitChars == <<"0", "1", "2", "3", "4", "5", "6", "7", "8", "9">>

DigitOf(c) == CHOOSE i \in 0..9 : DigitChars[i + 1] = c

RECURSIVE ZeroPad(_, _)
ZeroPad(n, width) ==
    IF width = 0 THEN <<>>
    ELSE Append(ZeroPad(n \div 10, width - 1), DigitChars[(n % 10) + 1])

RECURSIVE ParseInt(_)
ParseInt(s) ==
    IF s = <<>> THEN 0
    ELSE 10 * ParseInt(SubSeq(s, 1, Len(s) - 1)) + DigitOf(s[Len(s)])

\* date.isoformat(): "YYYY-MM-DD" as a sequence of characters
isoformat(d) ==
    ZeroPad(d.year, 4) \o <<"-">> \o ZeroPad(d.month, 2) \o <<"-">> \o ZeroPad(d.day, 2)

\* the string read as year, day, month
fromisoformat_day_first(s) ==
    MkDate(ParseInt(SubSeq(s, 1, 4)), ParseInt(SubSeq(s, 9, 10)), ParseInt(SubSeq(s, 6, 7)))

\* date.fromisoformat()
fromisoformat(s) ==
    MkDate(ParseInt(SubSeq(s, 1, 4)), ParseInt(SubSeq(s, 6, 7)), ParseInt(SubSeq(s, 9, 10)))

(***************************************************************************)
(* Schema-valid submissions (TradeCreate).                                 *)
(***************************************************************************)
TradeCreate(tid, v, cp, book, md, cd) ==
    [trade_id |-> tid, version |-> v, counterparty_id |-> cp, book_id |-> book,
     maturity_date |-> md, created_date |-> cd]

\* T1 in every version; at version 1 also from another counterparty and with the early
\* maturity date; T2 is the unrelated trade
Submissions ==
    { TradeCreate("T1", v, "CP-1", "B1", DateOfDay(MaxDay), DateOfDay(0)) : v \in Versions }
    \cup { TradeCreate("T1", 1, "CP-2", "B2", DateOfDay(MaxDay), DateOfDay(0)),
           TradeCreate("T1", 1, "CP-1", "B1", DateOfDay(0), DateOfDay(0)),
           TradeCreate("T2", 1, "CP-1", "B1", DateOfDay(MaxDay), DateOfDay(0)) }

VARIABLES
    now,        \* the system clock, seconds since day 0 of the model
    requests,   \* lifecycle store (DynamoDB table): request_id -> item, <<>> when absent
    trades,     \* record store (table trades): the set of committed rows
    log,        \* ordered channel: partition -> sequence of envelopes sent
    pos,        \* consumer group position: partition -> envelopes already fetched
    committed,  \* consumer group committed offset: partition -> where a restart resumes
    call,       \* the ingest_trade call in progress
    history,    \* per generated request_id: what that ingest_trade call did and returned
    nextId,     \* next request_id that uuid4 generates
    worker,     \* the consume loop and the handle_message it is running
    faults,     \* disruptions so far: operations that raised, stops of a consumer
    unit        \* a validator applied on its own: its inputs and its result

vars == <<now, requests, trades, log, pos, committed, call, history, nextId, worker, faults, unit>>

today == DateOfDay(now \div SecondsPerDay)

(***************************************************************************)
(* Exceptions (app/exceptions/trade_exceptions.py) carry a message.        *)
(***************************************************************************)
MaturityDateExpiredError(trade, day) ==
    [error |-> "MaturityDateExpiredError", trade_id |-> trade.trade_id,
     text |-> "maturity date is earlier than today",
     maturity_date |-> trade.maturity_date, today |-> day]

LowerVersionError(trade, stored) ==
    [error |-> "LowerVersionError", trade_id |-> trade.trade_id,
     text |-> "incoming version is lower than stored version",
     version |-> trade.version, stored |-> stored]

Returned(value) == [raised |-> FALSE, value |-> value]
Raised(exc) == [raised |-> TRUE, exc |-> exc]

(***************************************************************************)
(* Validators.                                                             *)
(***************************************************************************)
\* the comparison written as "not later than" instead of "earlier than"
MaturityDateValidator_validate_not_strict(trade, day) ==
    IF ~DateLT(day, trade.maturity_date)
    THEN Raised(MaturityDateExpiredError(trade, day))
    ELSE Returned(None)

\* expiry judged against the date the submission carries, not the processing date
MaturityDateValidator_validate_at_created_date(trade, day) ==
    IF DateLT(trade.maturity_date, trade.created_date)
    THEN Raised(MaturityDateExpiredError(trade, day))
    ELSE Returned(None)

MaturityDateValidator_validate(trade, day) ==
    IF DateLT(trade.maturity_date, day)
    THEN Raised(MaturityDateExpiredError(trade, day))
    ELSE Returned(None)

\* the validator without its lower-version test
VersionValidator_validate_accepts_lower(current_max_version, trade) ==
    IF current_max_version = None THEN Returned("insert")
    ELSE IF trade.version = current_max_version[1] THEN Returned("upsert")
    ELSE Returned("insert")

\* the lower-version test written with <= instead of <
VersionValidator_validate_rejects_equal(current_max_version, trade) ==
    IF current_max_version = None THEN Returned("insert")
    ELSE IF trade.version <= current_max_version[1]
         THEN Raised(LowerVersionError(trade, current_max_version[1]))
    ELSE Returned("insert")

VersionValidator_validate(current_max_version, trade) ==
    IF current_max_version = None THEN Returned("insert")
    ELSE IF trade.version < current_max_version[1]
         THEN Raised(LowerVersionError(trade, current_max_version[1]))
    ELSE IF trade.version = current_max_version[1] THEN Returned("upsert")
    ELSE Returned("insert")

(***************************************************************************)
(* Record store: TradeRepository over the table of models/trade.py.        *)
(***************************************************************************)
Matching(rows, trade_id, version) ==
    { row \in rows : row.trade_id = trade_id /\ row.version = version }

\* scalar_one_or_none(): None without a row, the row when there is one
get_by_id_and_version(rows, trade_id, version) ==
    IF Matching(rows, trade_id, version) = {} THEN None
    ELSE Some(CHOOSE row \in Matching(rows, trade_id, version) : TRUE)

\* the select without its where clause: the maximum over the whole table
get_max_version_any_trade(rows, trade_id) ==
    LET vs == { row.version : row \in rows }
    IN  IF vs = {} THEN None ELSE Some(CHOOSE v \in vs : \A u \in vs : u <= v)

\* the maximum coalesced to 0 when the trade_id has no row
get_max_version_zero_when_none(rows, trade_id) ==
    LET vs == { row.version : row \in { r \in rows : r.trade_id = trade_id } }
    IN  IF vs = {} THEN Some(0) ELSE Some(CHOOSE v \in vs : \A u \in vs : u <= v)

\* select max(version) where trade_id = ...
get_max_version(rows, trade_id) ==
    LET vs == { row.version : row \in { r \in rows : r.trade_id = trade_id } }
    IN  IF vs = {} THEN None ELSE Some(CHOOSE v \in vs : \A u \in vs : u <= v)

\* Trade.expired: computed from maturity_date and the day of the read, not a column
expired(row, day) == DateLT(row.maturity_date, day)

\* the database's order on the trade_id strings in use
TradeIdOrder == <<"T1", "T2", "T3">>

TradeIdRank(trade_id) == CHOOSE i \in 1..Len(TradeIdOrder) : TradeIdOrder[i] = trade_id

\* order by trade_id, version
RowBefore(a, b) ==
    \/ TradeIdRank(a.trade_id) < TradeIdRank(b.trade_id)
    \/ a.trade_id = b.trade_id /\ a.version < b.version

RECURSIVE OrderByTradeIdVersion(_)
OrderByTradeIdVersion(rows) ==
    IF rows = {} THEN <<>>
    ELSE LET first == CHOOSE r \in rows : \A o \in rows : ~RowBefore(o, r)
         IN  <<first>> \o OrderByTradeIdVersion(rows \ {first})

RECURSIVE OrderByVersion(_)
\* order by version, on rows of one trade_id
OrderByVersion(rows) ==
    IF rows = {} THEN <<>>
    ELSE LET first == CHOOSE r \in rows : \A o \in rows : r.version <= o.version
         IN  <<first>> \o OrderByVersion(rows \ {first})

\* select(Trade).order_by(trade_id, version)
get_all(rows) == OrderByTradeIdVersion(rows)

\* the versions of a trade_id listed newest first
get_all_versions_descending(rows, trade_id) ==
    LET listed == OrderByVersion({ r \in rows : r.trade_id = trade_id })
    IN  [i \in 1..Len(listed) |-> listed[Len(listed) + 1 - i]]

\* select(Trade).where(trade_id = ...).order_by(version)
get_all_versions(rows, trade_id) == OrderByVersion({ r \in rows : r.trade_id = trade_id })

\* Trade(...) as built by handle_message; created_at / updated_at are server defaults
Trade(trade_create, ts) ==
    [trade_id |-> trade_create.trade_id, version |-> trade_create.version,
     counterparty_id |-> trade_create.counterparty_id, book_id |-> trade_create.book_id,
     maturity_date |-> trade_create.maturity_date, created_date |-> trade_create.created_date,
     created_at |-> ts, updated_at |-> ts]

\* the existing row deleted and a new object put in its place
Overwritten_reinserts(existing, trade, ts) == Trade(trade, ts)

\* the existing row with the four attributes assigned; onupdate=func.now() fires when
\* the flush has a changed attribute to write
Overwritten(existing, trade, ts) ==
    LET assigned == [existing EXCEPT !.counterparty_id = trade.counterparty_id,
                                     !.book_id = trade.book_id,
                                     !.maturity_date = trade.maturity_date,
                                     !.created_date = trade.created_date]
    IN  IF assigned = existing THEN existing ELSE [assigned EXCEPT !.updated_at = ts]

\* the lookup by trade_id alone: the row found, of whatever version, is replaced
upsert_by_trade_id(rows, trade, ts) ==
    LET found == { row \in rows : row.trade_id = trade.trade_id }
    IN  IF found # {}
        THEN (rows \ {CHOOSE row \in found : TRUE}) \cup {Trade(trade, ts)}
        ELSE rows \cup {Trade(trade, ts)}

\* upsert without its lookup: the new object is always added
upsert_adds(rows, trade, ts) == rows \cup {Trade(trade, ts)}

\* the table emptied before the row is written
upsert_truncates(rows, trade, ts) == {Trade(trade, ts)}

\* upsert followed by session.commit(): the rows of the table afterwards
upsert(rows, trade, ts) ==
    LET existing == get_by_id_and_version(rows, trade.trade_id, trade.version)
    IN  IF existing # None
        THEN (rows \ {existing[1]}) \cup {Overwritten(existing[1], trade, ts)}
        ELSE rows \cup {Trade(trade, ts)}

(***************************************************************************)
(* Lifecycle store: RequestRepository over a DynamoDB table.  An item is a *)
(* function from attribute names to values; put_item replaces the item,    *)
(* update_item with SET assigns the named attributes of the item under the *)
(* key, on whatever item is (or is not) there.                             *)
(***************************************************************************)
NoItem == <<>>

put_item(table, key, item) == [table EXCEPT ![key] = item]

update_item(table, key, assignments) ==
    [table EXCEPT ![key] = assignments @@ @ @@ [PK |-> key]]

create_pending(table, request_id, trade, clock) ==
    put_item(table, request_id,
        [PK |-> request_id, request_id |-> request_id, status |-> "PENDING",
         trade_id |-> trade.trade_id, version |-> trade.version,
         counterparty_id |-> trade.counterparty_id, book_id |-> trade.book_id,
         maturity_date |-> isoformat(trade.maturity_date),
         created_date |-> isoformat(trade.created_date),
         created_at |-> clock, ttl |-> clock + TTL_SECONDS])

\* the update also setting a new ttl, as create_pending computes it
update_status_extends_ttl(table, request_id, status, failure_reason, clock) ==
    IF failure_reason # None
    THEN update_item(table, request_id,
            [status |-> status, updated_at |-> clock, failure_reason |-> failure_reason[1],
             ttl |-> clock + TTL_SECONDS])
    ELSE update_item(table, request_id,
            [status |-> status, updated_at |-> clock, ttl |-> clock + TTL_SECONDS])

\* the branch that stores the reason left out: status and updated_at only
update_status_drops_reason(table, request_id, status, failure_reason, clock) ==
    update_item(table, request_id, [status |-> status, updated_at |-> clock])

update_status(table, request_id, status, failure_reason, clock) ==
    IF failure_reason # None
    THEN update_item(table, request_id,
            [status |-> status, updated_at |-> clock, failure_reason |-> failure_reason[1]])
    ELSE update_item(table, request_id, [status |-> status, updated_at |-> clock])

\* item.get(name, {}).get("S")
Attribute(item, name) == IF name \in DOMAIN item THEN Some(item[name]) ELSE None

\* get_item and the dict built from the item; item["request_id"] and the other
\* subscripts raise KeyError on an item without that attribute
get_by_request_id(table, request_id) ==
    LET item == table[request_id]
    IN  IF item = NoItem THEN Returned(None)
        ELSE IF {"request_id", "status", "trade_id", "version", "created_at"}
                    \subseteq DOMAIN item
        THEN Returned(Some([request_id |-> item.request_id, status |-> item.status,
                            trade_id |-> item.trade_id, version |-> item.version,
                            failure_reason |-> Attribute(item, "failure_reason"),
                            created_at |-> item.created_at,
                            updated_at |-> Attribute(item, "updated_at")]))
        ELSE Raised([error |-> "KeyError"])

(***************************************************************************)
(* Ordered channel: send_trade appends to the partition of the key.        *)
(***************************************************************************)
\* the partitioner maps a key to one partition; T1 and T2 fall on different ones
PartitionOf(trade_id) == IF trade_id = "T1" THEN 0 ELSE 1

\* the envelope sent with its version as the key
send_trade_keyed_by_version(channel, trade_id, payload) ==
    [channel EXCEPT ![payload.version % NUM_PARTITIONS] = Append(@, payload)]

send_trade(channel, trade_id, payload) ==
    [channel EXCEPT ![PartitionOf(trade_id)] = Append(@, payload)]

\* the module-level handle assigned before producer.start() is awaited
start_producer_assigns_first(started) == Some("AIOKafkaProducer")

\* start_producer: _producer is assigned after producer.start() returned; when
\* _ensure_topics_exist or start() raises it stays None
start_producer(started) == IF started THEN Some("AIOKafkaProducer") ELSE None

\* stop_producer: a producer that is set is stopped and the handle cleared
stop_producer(_producer) == None

\* send_trade on the module-level handle: RuntimeError without a producer, the envelope
\* appended to its partition otherwise
producer_send_trade(_producer, channel, trade_id, payload) ==
    IF _producer = None
    THEN Raised([error |-> "RuntimeError",
                 text |-> "Kafka producer not initialised. Call start_producer() first."])
    ELSE Returned(send_trade(channel, trade_id, payload))

\* a store or channel operation either succeeds or raises
Fails(ok) ==
    /\ ~ok => faults < MaxFaults
    /\ faults' = IF ok THEN faults ELSE faults + 1

(***************************************************************************)
(* Admission: TradeService.ingest_trade.                                   *)
(***************************************************************************)
Payload(request_id, trade) ==
    [request_id |-> request_id, trade_id |-> trade.trade_id, version |-> trade.version,
     counterparty_id |-> trade.counterparty_id, book_id |-> trade.book_id,
     maturity_date |-> isoformat(trade.maturity_date),
     created_date |-> isoformat(trade.created_date), action |-> "insert"]

TradeTemporaryFailure ==
    [status |-> "temporary_failure",
     message |-> "Service temporarily unavailable. Please retry later.",
     retry_after_seconds |-> RETRY_AFTER_SECONDS]

TradeAccepted(request_id, trade) ==
    [status |-> "accepted", request_id |-> request_id, trade_id |-> trade.trade_id,
     version |-> trade.version, message |-> "Trade queued for processing"]

\* ingest_trade with the lifecycle store answering: the PENDING record is written, then
\* the producer is called and its exception turned into a temporary failure
ingest_trade(table, channel, _producer, request_id, trade, clock) ==
    LET sent == producer_send_trade(_producer, channel, trade.trade_id,
                                    Payload(request_id, trade))
    IN  [table |-> create_pending(table, request_id, trade, clock),
         channel |-> IF sent.raised THEN channel ELSE sent.value,
         result |-> IF sent.raised THEN TradeTemporaryFailure
                    ELSE TradeAccepted(request_id, trade)]

Idle == [pc |-> "idle"]

\* what one finished call did: the submission, which of its two writes succeeded,
\* and the value it returned
Outcome(trade, created, published, result) ==
    [trade |-> trade, created |-> created, published |-> published, result |-> result]

\* the except branch of create_pending without its return: the call goes on to publish
\* and returns accepted
IngestCreatePending_falls_through(trade, ok) ==
    /\ Fails(ok)
    /\ call.pc = "idle"
    /\ nextId <= MaxRequests
    /\ nextId' = nextId + 1
    /\ IF ok
       THEN /\ requests' = create_pending(requests, nextId, trade, now)
            /\ call' = [pc |-> "publish", request_id |-> nextId, trade |-> trade,
                        payload |-> Payload(nextId, trade)]
            /\ UNCHANGED <<history, log>>
       ELSE /\ log' = send_trade(log, trade.trade_id, Payload(nextId, trade))
            /\ history' = [history EXCEPT ![nextId] =
                              Outcome(None, FALSE, TRUE, TradeAccepted(nextId, trade))]
            /\ UNCHANGED <<requests, call>>
    /\ UNCHANGED <<now, trades, pos, committed, worker, unit>>

\* the two writes in the other order: the envelope is sent before the record is written
IngestCreatePending_publish_first(trade, ok) ==
    /\ Fails(ok)
    /\ call.pc = "idle"
    /\ nextId <= MaxRequests
    /\ nextId' = nextId + 1
    /\ IF ok
       THEN /\ log' = send_trade(log, trade.trade_id, Payload(nextId, trade))
            /\ call' = [pc |-> "publish", request_id |-> nextId, trade |-> trade,
                        payload |-> Payload(nextId, trade)]
            /\ UNCHANGED history
       ELSE /\ history' = [history EXCEPT ![nextId] =
                              Outcome(None, FALSE, FALSE, TradeTemporaryFailure)]
            /\ UNCHANGED <<log, call>>
    /\ UNCHANGED <<now, requests, trades, pos, committed, worker, unit>>

\* the expiry rule applied at admission: an expired submission is turned away
IngestCreatePending_validates(trade, ok) ==
    /\ Fails(ok)
    /\ call.pc = "idle"
    /\ nextId <= MaxRequests
    /\ nextId' = nextId + 1
    /\ IF ok /\ ~DateLT(trade.maturity_date, today)
       THEN /\ requests' = create_pending(requests, nextId, trade, now)
            /\ call' = [pc |-> "publish", request_id |-> nextId, trade |-> trade,
                        payload |-> Payload(nextId, trade)]
            /\ UNCHANGED history
       ELSE /\ history' = [history EXCEPT ![nextId] =
                              Outcome(None, FALSE, FALSE,
                                      IF ok THEN [status |-> "rejected"]
                                            ELSE TradeTemporaryFailure)]
            /\ UNCHANGED <<requests, call>>
    /\ UNCHANGED <<now, trades, log, pos, committed, worker, unit>>

\* lines 28-52: generate the request_id, build the payload, write the PENDING record
IngestCreatePending(trade, ok) ==
    /\ Fails(ok)
    /\ call.pc = "idle"
    /\ nextId <= MaxRequests
    /\ nextId' = nextId + 1
    /\ IF ok
       THEN /\ requests' = create_pending(requests, nextId, trade, now)
            /\ call' = [pc |-> "publish", request_id |-> nextId, trade |-> trade,
                        payload |-> Payload(nextId, trade)]
            /\ UNCHANGED history
       ELSE /\ history' = [history EXCEPT ![nextId] =
                              Outcome(None, FALSE, FALSE, TradeTemporaryFailure)]
            /\ UNCHANGED <<requests, call>>
    /\ UNCHANGED <<now, trades, log, pos, committed, worker, unit>>

\* a failed publish attempted once more inside the call, the second attempt going through
IngestPublish_retries(ok) ==
    /\ Fails(ok)
    /\ call.pc = "publish"
    /\ call' = Idle
    /\ log' = send_trade(log, call.trade.trade_id, call.payload)
    /\ history' = [history EXCEPT ![call.request_id] =
                      Outcome(Some(call.trade), TRUE, TRUE,
                              TradeAccepted(call.request_id, call.trade))]
    /\ UNCHANGED <<now, requests, trades, pos, committed, nextId, worker, unit>>

\* a failed publish compensated by removing the PENDING record
IngestPublish_rolls_back(ok) ==
    /\ Fails(ok)
    /\ call.pc = "publish"
    /\ call' = Idle
    /\ IF ok
       THEN /\ log' = send_trade(log, call.trade.trade_id, call.payload)
            /\ history' = [history EXCEPT ![call.request_id] =
                              Outcome(Some(call.trade), TRUE, TRUE,
                                      TradeAccepted(call.request_id, call.trade))]
            /\ UNCHANGED requests
       ELSE /\ history' = [history EXCEPT ![call.request_id] =
                              Outcome(Some(call.trade), TRUE, FALSE, TradeTemporaryFailure)]
            /\ requests' = put_item(requests, call.request_id, NoItem)
            /\ UNCHANGED log
    /\ UNCHANGED <<now, trades, pos, committed, nextId, worker, unit>>

\* a failed publish only logged: the call still returns accepted
IngestPublish_accepts_anyway(ok) ==
    /\ Fails(ok)
    /\ call.pc = "publish"
    /\ call' = Idle
    /\ history' = [history EXCEPT ![call.request_id] =
                      Outcome(Some(call.trade), TRUE, ok,
                              TradeAccepted(call.request_id, call.trade))]
    /\ log' = IF ok THEN send_trade(log, call.trade.trade_id, call.payload) ELSE log
    /\ UNCHANGED <<now, requests, trades, pos, committed, nextId, worker, unit>>

\* lines 54-80: publish the envelope, return accepted or temporary failure
\* the gateway writes the trade row itself once the envelope is sent
IngestPublish_persists(ok) ==
    /\ Fails(ok)
    /\ call.pc = "publish"
    /\ call' = Idle
    /\ IF ok
       THEN /\ log' = send_trade(log, call.trade.trade_id, call.payload)
            /\ trades' = upsert(trades, call.trade, now)
            /\ history' = [history EXCEPT ![call.request_id] =
                              Outcome(Some(call.trade), TRUE, TRUE,
                                      TradeAccepted(call.request_id, call.trade))]
       ELSE /\ history' = [history EXCEPT ![call.request_id] =
                              Outcome(Some(call.trade), TRUE, FALSE, TradeTemporaryFailure)]
            /\ UNCHANGED <<log, trades>>
    /\ UNCHANGED <<now, requests, pos, committed, nextId, worker, unit>>

IngestPublish(ok) ==
    /\ Fails(ok)
    /\ call.pc = "publish"
    /\ call' = Idle
    /\ IF ok
       THEN /\ log' = send_trade(log, call.trade.trade_id, call.payload)
            /\ history' = [history EXCEPT ![call.request_id] =
                              Outcome(Some(call.trade), TRUE, TRUE,
                                      TradeAccepted(call.request_id, call.trade))]
       ELSE /\ history' = [history EXCEPT ![call.request_id] =
                              Outcome(Some(call.trade), TRUE, FALSE, TradeTemporaryFailure)]
            /\ UNCHANGED log
    /\ UNCHANGED <<now, requests, trades, pos, committed, nextId, worker, unit>>

(***************************************************************************)
(* Consumption: the consume loop of each worker and handle_message.        *)
(* A partition is assigned to one worker of the group.                     *)
(***************************************************************************)
\* GET /api/v1/requests/{request_id}: one read of the lifecycle store, answered with
\* the record or with 404; nothing is written
GetRequestStatus(request_id) ==
    LET record == get_by_request_id(requests, request_id)
    IN  /\ record.raised \in BOOLEAN
        /\ UNCHANGED vars

Workers == 1..NumWorkers

Owner(p) == (p % NumWorkers) + 1

\* the TradeCreate that handle_message rebuilds from the envelope (lines 45-52)
ParseEnvelope(m) ==
    TradeCreate(m.trade_id, m.version, m.counterparty_id, m.book_id,
                fromisoformat(m.maturity_date), fromisoformat(m.created_date))

\* the chain without the expiry validator
ValidationChain_without_expiry(trade_create, rows, day) ==
    VersionValidator_validate(get_max_version(rows, trade_create.trade_id), trade_create)

\* the two validators in the other order
ValidationChain_version_first(trade_create, rows, day) ==
    LET versioned == VersionValidator_validate(get_max_version(rows, trade_create.trade_id),
                                               trade_create)
    IN  IF versioned.raised THEN versioned
        ELSE LET expiry == MaturityDateValidator_validate(trade_create, day)
             IN  IF expiry.raised THEN expiry ELSE versioned

\* lines 55-57: expiry validator, then the max-version lookup and the version validator;
\* the first TradeValidationError raised ends the chain
ValidationChain(trade_create, rows, day) ==
    LET expiry == MaturityDateValidator_validate(trade_create, day)
    IN  IF expiry.raised THEN expiry
        ELSE VersionValidator_validate(get_max_version(rows, trade_create.trade_id),
                                       trade_create)

\* the max-version lookup made before the expiry validator runs
ValidationChainRun_reads_first(trade_create, rows, day) ==
    [outcome |-> ValidationChain(trade_create, rows, day),
     reads |-> <<[select |-> "max(version)", trade_id |-> trade_create.trade_id]>>]

\* lines 55-57 with the record-store reads they make: validate() of the expiry
\* validator raises before get_max_version is awaited, or returns and the lookup is made
ValidationChainRun(trade_create, rows, day) ==
    LET expiry == MaturityDateValidator_validate(trade_create, day)
    IN  IF expiry.raised THEN [outcome |-> expiry, reads |-> <<>>]
        ELSE [outcome |-> VersionValidator_validate(
                              get_max_version(rows, trade_create.trade_id), trade_create),
              reads |-> <<[select |-> "max(version)", trade_id |-> trade_create.trade_id]>>]

\* the write chosen by the envelope's action field: "upsert" only updates a row that is there
handle_message_follows_label(rows, msg, day, ts) ==
    LET trade_create == ParseEnvelope(msg)
    IN  IF ValidationChain(trade_create, rows, day).raised THEN rows
        ELSE IF msg.action = "upsert"
                /\ Matching(rows, trade_create.trade_id, trade_create.version) = {}
        THEN rows
        ELSE upsert(rows, trade_create, ts)

\* the record store after handle_message has run on an envelope with every store
\* operation succeeding: unchanged on a validation error, the upsert committed otherwise
handle_message(rows, msg, day, ts) ==
    LET trade_create == ParseEnvelope(msg)
    IN  IF ValidationChain(trade_create, rows, day).raised THEN rows
        ELSE upsert(rows, trade_create, ts)

\* async for msg in consumer: the next envelope of an assigned partition is handed to
\* handle_message, which runs lines 35-57 on it
Receive(w, p) ==
    /\ worker[w].pc = "idle"
    /\ Owner(p) = w
    /\ pos[p] < Len(log[p])
    /\ pos' = [pos EXCEPT ![p] = @ + 1]
    /\ LET msg == log[p][pos[p] + 1]
           trade_create == ParseEnvelope(msg)
           outcome == ValidationChain(trade_create, trades, today)
       IN  worker' = [worker EXCEPT ![w] =
              IF outcome.raised
              THEN [pc |-> "rejected", msg |-> msg,
                    trade_create |-> trade_create, exc |-> outcome.exc]
              ELSE [pc |-> "accepted", msg |-> msg,
                    trade_create |-> trade_create, action |-> outcome.value]]
    /\ UNCHANGED <<now, requests, trades, log, committed, call, history, nextId, faults, unit>>

\* the except branch without its return: the rejected trade is persisted all the same
MarkFailed_persists(w, ok) ==
    /\ Fails(ok)
    /\ worker[w].pc = "rejected"
    /\ worker' = [worker EXCEPT ![w] = Idle]
    /\ requests' = IF ok
                   THEN update_status(requests, worker[w].msg.request_id, "FAILED",
                                      Some(worker[w].exc), now)
                   ELSE requests
    /\ trades' = upsert(trades, worker[w].trade_create, now)
    /\ UNCHANGED <<now, log, pos, committed, call, history, nextId, unit>>

\* handle_message lines 58-68; a failing update_item raises into the consume loop,
\* which logs it and goes on (lines 115-120)
MarkFailed(w, ok) ==
    /\ Fails(ok)
    /\ worker[w].pc = "rejected"
    /\ worker' = [worker EXCEPT ![w] = Idle]
    /\ requests' = IF ok
                   THEN update_status(requests, worker[w].msg.request_id, "FAILED",
                                      Some(worker[w].exc), now)
                   ELSE requests
    /\ UNCHANGED <<now, trades, log, pos, committed, call, history, nextId, unit>>

\* the commit reaches the table and raises all the same
Persist_half_commits(w, ok) ==
    /\ Fails(ok)
    /\ worker[w].pc = "accepted"
    /\ trades' = upsert(trades, worker[w].trade_create, now)
    /\ worker' = [worker EXCEPT ![w] = IF ok THEN [@ EXCEPT !.pc = "committed"] ELSE Idle]
    /\ UNCHANGED <<now, requests, log, pos, committed, call, history, nextId, unit>>

\* a failed commit swallowed: handle_message goes on to the SUCCESS update
Persist_swallows(w, ok) ==
    /\ Fails(ok)
    /\ worker[w].pc = "accepted"
    /\ worker' = [worker EXCEPT ![w] = [@ EXCEPT !.pc = "committed"]]
    /\ trades' = IF ok THEN upsert(trades, worker[w].trade_create, now) ELSE trades
    /\ UNCHANGED <<now, requests, log, pos, committed, call, history, nextId, unit>>

\* handle_message lines 70-79: upsert and commit; a failure leaves the table as it was
Persist(w, ok) ==
    /\ Fails(ok)
    /\ worker[w].pc = "accepted"
    /\ IF ok
       THEN /\ trades' = upsert(trades, worker[w].trade_create, now)
            /\ worker' = [worker EXCEPT ![w] = [@ EXCEPT !.pc = "committed"]]
       ELSE /\ worker' = [worker EXCEPT ![w] = Idle]
            /\ UNCHANGED trades
    /\ UNCHANGED <<now, requests, log, pos, committed, call, history, nextId, unit>>

\* the lifecycle update skipped, as when no request repository is at hand
MarkSuccess_skips(w, ok) ==
    /\ Fails(ok)
    /\ worker[w].pc = "committed"
    /\ worker' = [worker EXCEPT ![w] = Idle]
    /\ UNCHANGED <<now, requests, trades, log, pos, committed, call, history, nextId, unit>>

\* the committed row taken back when the lifecycle update raises
MarkSuccess_rolls_back(w, ok) ==
    /\ Fails(ok)
    /\ worker[w].pc = "committed"
    /\ worker' = [worker EXCEPT ![w] = Idle]
    /\ requests' = IF ok
                   THEN update_status(requests, worker[w].msg.request_id, "SUCCESS",
                                      None, now)
                   ELSE requests
    /\ trades' = IF ok THEN trades
                 ELSE trades \ Matching(trades, worker[w].msg.trade_id, worker[w].msg.version)
    /\ UNCHANGED <<now, log, pos, committed, call, history, nextId, unit>>

\* handle_message lines 81-90
MarkSuccess(w, ok) ==
    /\ Fails(ok)
    /\ worker[w].pc = "committed"
    /\ worker' = [worker EXCEPT ![w] = Idle]
    /\ requests' = IF ok
                   THEN update_status(requests, worker[w].msg.request_id, "SUCCESS",
                                      None, now)
                   ELSE requests
    /\ UNCHANGED <<now, trades, log, pos, committed, call, history, nextId, unit>>

\* main(): the signal handler cancels the running task, at whatever await it is; was
\* is the task as the cancellation found it
Stop(w) ==
    /\ worker[w].pc # "stopped"
    /\ faults < MaxFaults
    /\ faults' = faults + 1
    /\ worker' = [worker EXCEPT ![w] = [pc |-> "stopped", was |-> worker[w]]]
    /\ UNCHANGED <<now, requests, trades, log, pos, committed, call, history, nextId, unit>>

\* consume() started again: each assigned partition resumes from the group's committed
\* offset, which enable_auto_commit=True has moved to some point between the previous
\* commit and the last envelope fetched
Start(w) ==
    /\ worker[w].pc = "stopped"
    /\ worker' = [worker EXCEPT ![w] = Idle]
    /\ \E resume \in [Partitions -> 0..MaxRequests] :
          /\ \A p \in Partitions :
                IF Owner(p) = w
                THEN committed[p] <= resume[p] /\ resume[p] <= pos[p]
                ELSE resume[p] = committed[p]
          /\ committed' = resume
          /\ pos' = [p \in Partitions |-> IF Owner(p) = w THEN resume[p] ELSE pos[p]]
    /\ UNCHANGED <<now, requests, trades, log, call, history, nextId, faults, unit>>

\* a day passes
Tick ==
    /\ now \div SecondsPerDay < MaxDay
    /\ now' = now + SecondsPerDay
    /\ UNCHANGED <<requests, trades, log, pos, committed, call, history, nextId, worker, faults, unit>>

NoUnit == [fn |-> "none"]

\* the state after construction, on the day the clock shows
InitOn(day) ==
    /\ now = day * SecondsPerDay
    /\ requests = [r \in RequestIds |-> NoItem]
    /\ trades = {}
    /\ log = [p \in Partitions |-> <<>>]
    /\ pos = [p \in Partitions |-> 0]
    /\ committed = [p \in Partitions |-> 0]
    /\ call = Idle
    /\ history = [r \in RequestIds |-> <<>>]
    /\ nextId = 1
    /\ worker = [w \in Workers |-> Idle]
    /\ faults = 0

\* the pipeline on one day (the last of the window, so that earlier maturity dates
\* exist), with store and channel failures and consumer restarts
Init == InitOn(MaxDay) /\ unit = NoUnit

Next ==
    \/ \E trade \in Submissions, ok \in BOOLEAN : IngestCreatePending(trade, ok)
    \/ \E ok \in BOOLEAN : IngestPublish(ok)
    \/ \E w \in Workers, p \in Partitions : Receive(w, p)
    \/ \E w \in Workers, ok \in BOOLEAN : MarkFailed(w, ok)
    \/ \E w \in Workers, ok \in BOOLEAN : Persist(w, ok)
    \/ \E w \in Workers, ok \in BOOLEAN : MarkSuccess(w, ok)
    \/ \E w \in Workers : Stop(w)
    \/ \E w \in Workers : Start(w)
    \/ \E r \in RequestIds : GetRequestStatus(r)

Spec == Init /\ [][Next]_vars

\* the pipeline while days pass, every store and channel operation succeeding
TimedInit == InitOn(0) /\ unit = NoUnit

TimedNext ==
    \/ \E trade \in Submissions : IngestCreatePending(trade, TRUE)
    \/ IngestPublish(TRUE)
    \/ \E w \in Workers, p \in Partitions : Receive(w, p)
    \/ \E w \in Workers : MarkFailed(w, TRUE)
    \/ \E w \in Workers : Persist(w, TRUE)
    \/ \E w \in Workers : MarkSuccess(w, TRUE)
    \/ Tick

TimedSpec == TimedInit /\ [][TimedNext]_vars

\* the pipeline with a consumer that keeps running: admission may fail at its writes,
\* the consumer's store operations succeed and it is not stopped; the consume loop
\* takes the next envelope whenever there is one, and every awaited operation returns
ConsumerStep ==
    \/ \E w \in Workers, p \in Partitions : Receive(w, p)
    \/ \E w \in Workers : MarkFailed(w, TRUE)
    \/ \E w \in Workers : Persist(w, TRUE)
    \/ \E w \in Workers : MarkSuccess(w, TRUE)

RunningNext ==
    \/ \E trade \in Submissions, ok \in BOOLEAN : IngestCreatePending(trade, ok)
    \/ \E ok \in BOOLEAN : IngestPublish(ok)
    \/ ConsumerStep

\* the consume loop's fetch: an idle worker moves past the next envelope of a partition
\* it owns; Receive is the one action that changes pos, so these are the Receive steps
Fetch ==
    \E w \in Workers, p \in Partitions :
        /\ worker[w].pc = "idle"
        /\ Owner(p) = w
        /\ pos[p] < Len(log[p])
        /\ pos' = [pos EXCEPT ![p] = @ + 1]

\* a waiting envelope is eventually fetched, and a message being handled eventually
\* gets its next awaited store operation
RunningFairness ==
    /\ WF_pos(Fetch)
    /\ WF_vars(\E w \in Workers : MarkFailed(w, TRUE) \/ Persist(w, TRUE) \/ MarkSuccess(w, TRUE))

RunningSpec == Init /\ [][RunningNext]_vars /\ RunningFairness

(***************************************************************************)
(* The validators on their own: any version against any current maximum,   *)
(* any maturity date on any day.                                           *)
(***************************************************************************)
UnitTrade(v, n) == TradeCreate("T1", v, "CP-1", "B1", DateOfDay(n), DateOfDay(0))

VersionInputs ==
    { [fn |-> "VersionValidator", pc |-> "input", trade |-> UnitTrade(v, 0),
       current_max |-> m] :
        v \in 1..MaxUnitVersion,
        m \in {None} \cup { Some(k) : k \in 0..MaxUnitVersion } }

MaturityInputs ==
    { [fn |-> "MaturityDateValidator", pc |-> "input", trade |-> UnitTrade(1, n),
       maturity_day |-> n] : n \in 0..MaxUnitDay }

RECURSIVE Replayed(_)
\* the record store after the consumer has handled these submissions in this order,
\* one a second, on the day before day 0
Replayed(subs) ==
    IF subs = <<>> THEN {}
    ELSE handle_message(Replayed(SubSeq(subs, 1, Len(subs) - 1)),
                        Payload(Len(subs), subs[Len(subs)]),
                        DateOfDay(0), Len(subs) - MaxUnitReplay - 1)

UnitStores ==
    { Replayed(subs) : subs \in UNION { [1..k -> Submissions] : k \in 0..MaxUnitReplay } }

\* one more envelope, to be handled twice on a store that earlier envelopes left
HandleMessageInputs ==
    { [fn |-> "handle_message", pc |-> "input", msg |-> Payload(MaxUnitReplay + 1, s),
       store |-> st, runs |-> <<>>] : s \in Submissions, st \in UnitStores }

\* upsert of a submission on a store that earlier envelopes left
UpsertInputs ==
    { [fn |-> "upsert", pc |-> "input", trade |-> s, rows |-> st] :
        s \in Submissions, st \in UnitStores }

\* message_value.get(key)
dict_get(d, key) == IF key \in DOMAIN d THEN Some(d[key]) ELSE None

\* handle_message giving up before the validators when it has no lifecycle-store client
handle_message_stores_needs_client(rows, table, msg, dynamodb_client, day, ts) ==
    [rows |-> IF dynamodb_client THEN handle_message(rows, msg, day, ts) ELSE rows,
     table |-> table]

\* handle_message on both stores, every store operation succeeding: request_repo is
\* built only with a client (lines 36-40), and update_status is called only with a
\* request_repo and a request_id (lines 66-67 and 81-82)
handle_message_stores(rows, table, msg, dynamodb_client, day, ts) ==
    LET request_id == dict_get(msg, "request_id")
        updates == dynamodb_client /\ request_id # None
        trade_create == ParseEnvelope(msg)
        outcome == ValidationChain(trade_create, rows, day)
    IN  IF outcome.raised
        THEN [rows |-> rows,
              table |-> IF updates
                        THEN update_status(table, request_id[1], "FAILED",
                                           Some(outcome.exc), ts)
                        ELSE table]
        ELSE [rows |-> upsert(rows, trade_create, ts),
              table |-> IF updates
                        THEN update_status(table, request_id[1], "SUCCESS", None, ts)
                        ELSE table]

\* the envelope of a submission without its request_id
WithoutRequestId(msg) == [k \in DOMAIN msg \ {"request_id"} |-> msg[k]]

\* handle_message with or without a lifecycle-store client, on the envelope of request 1
\* with or without its request_id, its PENDING record written at admission
HandleMessageStoresInputs(day) ==
    { [fn |-> "handle_message_stores", pc |-> "input", trade |-> s,
       msg |-> IF with_id THEN Payload(1, s) ELSE WithoutRequestId(Payload(1, s)),
       dynamodb_client |-> client, store |-> st,
       table |-> create_pending([r \in {1} |-> NoItem], 1, s, day * SecondsPerDay)] :
        s \in Submissions, with_id \in BOOLEAN, client \in BOOLEAN, st \in UnitStores }

\* the trade_ids the read operations are asked about: those submitted and one never seen
QueriedTradeIds == { s.trade_id : s \in Submissions } \cup {"T3"}

\* get_max_version of a trade_id on a store that earlier envelopes left
MaxVersionInputs ==
    { [fn |-> "get_max_version", pc |-> "input", trade_id |-> t, rows |-> st] :
        t \in QueriedTradeIds, st \in UnitStores }

\* the two list queries on a store that earlier envelopes left
ListInputs ==
    { [fn |-> "get_all", pc |-> "input", rows |-> st] : st \in UnitStores }
    \cup { [fn |-> "get_all_versions", pc |-> "input", trade_id |-> t, rows |-> st] :
              t \in QueriedTradeIds, st \in UnitStores }

\* the envelope of request 1, admitted on day 0 on an empty record store, to be delivered
\* again and again while other envelopes are handled and days pass
DeliveryInputs(day) ==
    IF day # 0 THEN {}
    ELSE { [fn |-> "deliveries", pc |-> "input", msg |-> Payload(1, s), rows |-> {},
            table |-> create_pending([r \in {1} |-> NoItem], 1, s, 0),
            delivered |-> 0, others |-> 0, rejected |-> FALSE, last |-> FALSE] :
             s \in Submissions }

\* the application before its lifespan has started the producer
LifespanInputs ==
    { [fn |-> "lifespan", pc |-> "input", _producer |-> None, started |-> FALSE,
       table |-> [r \in RequestIds |-> NoItem], channel |-> [p \in Partitions |-> <<>>],
       next_id |-> 1, result |-> None] }

\* the status handle_message gives update_status: FAILED in the except branch (line
\* 67), SUCCESS after the commit (line 82)
handle_message_status(rows, msg, day) ==
    IF ValidationChain(ParseEnvelope(msg), rows, day).raised THEN "FAILED" ELSE "SUCCESS"

TradeActions == {"insert", "upsert"}

\* an envelope as admission builds it, to be handled once under each action label
ActionLabelInputs ==
    { [fn |-> "action_label", pc |-> "input", msg |-> Payload(MaxUnitReplay + 1, s),
       store |-> st] : s \in Submissions, st \in UnitStores }

\* the validation chain on a submission and a store that earlier envelopes left
ValidationChainInputs ==
    { [fn |-> "ValidationChain", pc |-> "input", trade |-> s, rows |-> st] :
        s \in Submissions, st \in UnitStores }

\* the lifecycle table with the record of one request, created age days before the
\* clock's day and left PENDING or updated by the consumer a second later
LifecycleTables(day) ==
    LET created(age) == create_pending([r \in {1} |-> NoItem], 1, UnitTrade(1, 0),
                                       (day - age) * SecondsPerDay)
        updated(age, status, failure_reason) ==
            update_status(created(age), 1, status, failure_reason,
                          (day - age) * SecondsPerDay + 1)
    IN  UNION { { created(age),
                  updated(age, "SUCCESS", None),
                  updated(age, "FAILED",
                          Some(LowerVersionError(UnitTrade(1, 0), 2))) } :
                age \in 0..MaxUnitAge }

\* a status query, or a lifecycle update by the consumer, for the request of such a table
LifecycleInputs(day) ==
    { [fn |-> f, pc |-> "input", request_id |-> 1, table |-> t, ttl |-> t[1].ttl,
       removed |-> FALSE] :
        f \in {"get_by_request_id", "update_status"}, t \in LifecycleTables(day) }

UnitInit ==
    \E day \in 0..MaxUnitDay :
        /\ InitOn(day)
        /\ unit \in VersionInputs \cup MaturityInputs \cup HandleMessageInputs
                    \cup UpsertInputs \cup LifecycleInputs(day) \cup ValidationChainInputs
                    \cup ActionLabelInputs \cup HandleMessageStoresInputs(day)
                    \cup MaxVersionInputs \cup ListInputs \cup DeliveryInputs(day)
                    \cup LifespanInputs

ApplyVersionValidator ==
    /\ unit.fn = "VersionValidator"
    /\ unit.pc = "input"
    /\ unit' = [fn |-> unit.fn, pc |-> "done", trade |-> unit.trade,
                current_max |-> unit.current_max,
                result |-> VersionValidator_validate(unit.current_max, unit.trade)]
    /\ UNCHANGED <<now, requests, trades, log, pos, committed, call, history, nextId, worker, faults>>

ApplyMaturityDateValidator ==
    /\ unit.fn = "MaturityDateValidator"
    /\ unit.pc = "input"
    /\ unit' = [fn |-> unit.fn, pc |-> "done", trade |-> unit.trade,
                maturity_day |-> unit.maturity_day,
                result |-> MaturityDateValidator_validate(unit.trade, today)]
    /\ UNCHANGED <<now, requests, trades, log, pos, committed, call, history, nextId, worker, faults>>

\* handle_message runs on the envelope, a second later, on the store as the run
\* before left it; runs keeps the store after each run
ApplyHandleMessage ==
    /\ unit.fn = "handle_message"
    /\ Len(unit.runs) < 2
    /\ now' = now + 1
    /\ LET rows == IF unit.runs = <<>> THEN unit.store ELSE unit.runs[Len(unit.runs)]
       IN  unit' = [unit EXCEPT !.pc = "done",
                                !.runs = Append(@, handle_message(rows, unit.msg, today, now'))]
    /\ UNCHANGED <<requests, trades, log, pos, committed, call, history, nextId, worker, faults>>

\* upsert and commit, a second later
ApplyUpsert ==
    /\ unit.fn = "upsert"
    /\ unit.pc = "input"
    /\ now' = now + 1
    /\ unit' = [fn |-> unit.fn, pc |-> "done", trade |-> unit.trade, rows |-> unit.rows,
                result |-> upsert(unit.rows, unit.trade, now')]
    /\ UNCHANGED <<requests, trades, log, pos, committed, call, history, nextId, worker, faults>>

\* the table's time-to-live process deletes an item some time after the time in its
\* ttl attribute has passed
ExpireItem ==
    /\ unit.fn \in {"get_by_request_id", "update_status"}
    /\ unit.pc = "input"
    /\ ~unit.removed
    /\ unit.ttl <= now
    /\ unit' = [unit EXCEPT !.table = [@ EXCEPT ![unit.request_id] = NoItem],
                            !.removed = TRUE]
    /\ UNCHANGED <<now, requests, trades, log, pos, committed, call, history, nextId, worker, faults>>

\* GET /api/v1/requests/{request_id}: the repository read behind it
ApplyGetByRequestId ==
    /\ unit.fn = "get_by_request_id"
    /\ unit.pc = "input"
    /\ unit' = [fn |-> unit.fn, pc |-> "done", request_id |-> unit.request_id,
                table |-> unit.table, ttl |-> unit.ttl, removed |-> unit.removed,
                result |-> get_by_request_id(unit.table, unit.request_id)]
    /\ UNCHANGED <<now, requests, trades, log, pos, committed, call, history, nextId, worker, faults>>

\* the consumer's update_status(request_id, "SUCCESS"), a second later
ApplyUpdateStatus ==
    /\ unit.fn = "update_status"
    /\ unit.pc = "input"
    /\ now' = now + 1
    /\ unit' = [fn |-> unit.fn, pc |-> "done", request_id |-> unit.request_id,
                table |-> update_status(unit.table, unit.request_id, "SUCCESS", None, now'),
                ttl |-> unit.ttl, removed |-> unit.removed]
    /\ UNCHANGED <<requests, trades, log, pos, committed, call, history, nextId, worker, faults>>

ApplyValidationChain ==
    /\ unit.fn = "ValidationChain"
    /\ unit.pc = "input"
    /\ unit' = [fn |-> unit.fn, pc |-> "done", trade |-> unit.trade, rows |-> unit.rows,
                result |-> ValidationChainRun(unit.trade, unit.rows, today)]
    /\ UNCHANGED <<now, requests, trades, log, pos, committed, call, history, nextId, worker, faults>>

\* handle_message run from the same store, a second later, on the envelope under each
\* value of its action field
ApplyActionLabels ==
    /\ unit.fn = "action_label"
    /\ unit.pc = "input"
    /\ now' = now + 1
    /\ unit' = [fn |-> unit.fn, pc |-> "done", msg |-> unit.msg, store |-> unit.store,
                result |-> [a \in TradeActions |->
                    LET labelled == [unit.msg EXCEPT !.action = a]
                    IN  [rows |-> handle_message(unit.store, labelled, today, now'),
                         status |-> handle_message_status(unit.store, labelled, today)]]]
    /\ UNCHANGED <<requests, trades, log, pos, committed, call, history, nextId, worker, faults>>

\* handle_message a second after admission
ApplyHandleMessageStores ==
    /\ unit.fn = "handle_message_stores"
    /\ unit.pc = "input"
    /\ now' = now + 1
    /\ unit' = [fn |-> unit.fn, pc |-> "done", trade |-> unit.trade, msg |-> unit.msg,
                dynamodb_client |-> unit.dynamodb_client, store |-> unit.store,
                table |-> unit.table,
                result |-> handle_message_stores(unit.store, unit.table, unit.msg,
                                                 unit.dynamodb_client, today, now')]
    /\ UNCHANGED <<requests, trades, log, pos, committed, call, history, nextId, worker, faults>>

ApplyGetMaxVersion ==
    /\ unit.fn = "get_max_version"
    /\ unit.pc = "input"
    /\ unit' = [fn |-> unit.fn, pc |-> "done", trade_id |-> unit.trade_id, rows |-> unit.rows,
                result |-> get_max_version(unit.rows, unit.trade_id)]
    /\ UNCHANGED <<now, requests, trades, log, pos, committed, call, history, nextId, worker, faults>>

\* a select: the table after it is the table before it
ApplyGetAll ==
    /\ unit.fn = "get_all"
    /\ unit.pc = "input"
    /\ unit' = [fn |-> unit.fn, pc |-> "done", rows |-> unit.rows, after |-> unit.rows,
                result |-> get_all(unit.rows)]
    /\ UNCHANGED <<now, requests, trades, log, pos, committed, call, history, nextId, worker, faults>>

ApplyGetAllVersions ==
    /\ unit.fn = "get_all_versions"
    /\ unit.pc = "input"
    /\ unit' = [fn |-> unit.fn, pc |-> "done", trade_id |-> unit.trade_id,
                rows |-> unit.rows, after |-> unit.rows,
                result |-> get_all_versions(unit.rows, unit.trade_id)]
    /\ UNCHANGED <<now, requests, trades, log, pos, committed, call, history, nextId, worker, faults>>

DeliverySteps == unit.delivered + unit.others

\* the envelope of request 1 is delivered and handled, a second later
Deliver ==
    /\ unit.fn = "deliveries"
    /\ DeliverySteps < MaxUnitReplay + 2
    /\ now' = now + 1
    /\ LET handled == handle_message_stores(unit.rows, unit.table, unit.msg, TRUE,
                                            today, now')
           raised == ValidationChain(ParseEnvelope(unit.msg), unit.rows, today).raised
       IN  unit' = [unit EXCEPT !.pc = "done", !.rows = handled.rows,
                                !.table = handled.table, !.delivered = @ + 1,
                                !.rejected = @ \/ raised, !.last = raised]
    /\ UNCHANGED <<requests, trades, log, pos, committed, call, history, nextId, worker, faults>>

\* the envelope of another request is handled, a second later
DeliverOther ==
    /\ unit.fn = "deliveries"
    /\ DeliverySteps < MaxUnitReplay + 2
    /\ now' = now + 1
    /\ \E s \in Submissions :
          unit' = [unit EXCEPT !.pc = "done", !.others = @ + 1,
                               !.rows = handle_message(unit.rows, Payload(2, s), today, now')]
    /\ UNCHANGED <<requests, trades, log, pos, committed, call, history, nextId, worker, faults>>

\* midnight passes between two deliveries
NextDay ==
    /\ unit.fn = "deliveries"
    /\ DeliverySteps < MaxUnitReplay + 2
    /\ now \div SecondsPerDay < MaxDay
    /\ now' = now + SecondsPerDay
    /\ UNCHANGED <<requests, trades, log, pos, committed, call, history, nextId, worker, faults, unit>>

\* lifespan lines 32-35: start_producer succeeds or raises, and the application serves
\* either way
LifespanStart ==
    /\ unit.fn = "lifespan"
    /\ unit.pc = "input"
    /\ \E started \in BOOLEAN :
          unit' = [unit EXCEPT !.pc = "serving", !.started = started,
                               !._producer = start_producer(started), !.result = None]
    /\ UNCHANGED <<now, requests, trades, log, pos, committed, call, history, nextId, worker, faults>>

\* lifespan line 39
LifespanStop ==
    /\ unit.fn = "lifespan"
    /\ unit.pc = "serving"
    /\ unit' = [unit EXCEPT !.pc = "stopped", !._producer = stop_producer(@),
                            !.result = None]
    /\ UNCHANGED <<now, requests, trades, log, pos, committed, call, history, nextId, worker, faults>>

\* one ingest_trade call, before the start, while serving or after the stop
LifespanIngest ==
    /\ unit.fn = "lifespan"
    /\ unit.next_id <= MaxRequests
    /\ now' = now + 1
    /\ \E trade \in Submissions :
          LET ingested == ingest_trade(unit.table, unit.channel, unit._producer,
                                      unit.next_id, trade, now')
          IN  unit' = [unit EXCEPT !.table = ingested.table, !.channel = ingested.channel,
                                   !.next_id = @ + 1, !.result = Some(ingested.result)]
    /\ UNCHANGED <<requests, trades, log, pos, committed, call, history, nextId, worker, faults>>

UnitNext ==
    \/ LifespanStart
    \/ LifespanStop
    \/ LifespanIngest
    \/ Deliver
    \/ DeliverOther
    \/ NextDay
    \/ ApplyGetAll
    \/ ApplyGetAllVersions
    \/ ApplyGetMaxVersion
    \/ ApplyHandleMessageStores
    \/ ApplyActionLabels
    \/ ApplyValidationChain
    \/ ExpireItem
    \/ ApplyGetByRequestId
    \/ ApplyUpdateStatus
    \/ ApplyVersionValidator
    \/ ApplyMaturityDateValidator
    \/ ApplyHandleMessage
    \/ ApplyUpsert

UnitSpec == UnitInit /\ [][UnitNext]_vars

(***************************************************************************)
(* Properties.                                                             *)
(***************************************************************************)
VersionValidated == unit.fn = "VersionValidator" /\ unit.pc = "done"

\* C1: VersionValidator.validate returns INSERT when there is no current maximum,
\* raises LowerVersionError when the version is below the maximum, returns UPSERT when
\* it equals the maximum and INSERT when it is above; an equal version is never rejected.
C1_VersionValidatorCases ==
    VersionValidated =>
        LET v == unit.trade.version
            m == unit.current_max
            r == unit.result
        IN  /\ m = None => r = Returned("insert")
            /\ (m # None /\ v < m[1]) => (r.raised /\ r.exc.error = "LowerVersionError")
            /\ (m # None /\ v = m[1]) => r = Returned("upsert")
            /\ (m # None /\ v > m[1]) => r = Returned("insert")

\* a version equal to the current maximum has been validated
C1_Witness ==
    /\ VersionValidated
    /\ unit.current_max = Some(unit.trade.version)
    /\ unit.result = Returned("upsert")

MaturityValidated == unit.fn = "MaturityDateValidator" /\ unit.pc = "done"

\* C2: MaturityDateValidator.validate raises MaturityDateExpiredError exactly when the
\* maturity date is strictly earlier than the processing date; the processing date
\* itself and later dates are accepted.
C2_MaturityRejectedIffEarlier ==
    MaturityValidated =>
        /\ unit.result.raised <=> unit.maturity_day < now \div SecondsPerDay
        /\ unit.result.raised => unit.result.exc.error = "MaturityDateExpiredError"

\* a maturity date equal to the processing date has been accepted
C2_Witness ==
    /\ MaturityValidated
    /\ unit.maturity_day = now \div SecondsPerDay
    /\ ~unit.result.raised

\* the ingest_trade call that generated request_id r has returned
Called(r) == history[r] # <<>>

\* every envelope ever sent to the channel
Envelopes == UNION { { log[p][i] : i \in 1..Len(log[p]) } : p \in Partitions }

EnvelopesOf(r) == { m \in Envelopes : m.request_id = r }

IsTemporaryFailure(result) ==
    /\ result.status = "temporary_failure"
    /\ result.retry_after_seconds = 60

\* C3: when create_pending fails, ingest_trade returns temporary_failure with
\* retry_after_seconds = 60 and the channel holds no envelope of that request.
C3_CreateFailureNeverPublishes ==
    \A r \in RequestIds :
        (Called(r) /\ ~history[r].created) =>
            /\ IsTemporaryFailure(history[r].result)
            /\ EnvelopesOf(r) = {}

\* a call whose create_pending failed has returned
C3_Witness == \E r \in RequestIds : Called(r) /\ ~history[r].created

\* C4: when create_pending succeeds and the publish fails, ingest_trade returns the same
\* temporary_failure, the PENDING record is still there, it stays PENDING in every later
\* state, and no envelope carries its request_id.
C4_PublishFailureLeavesPending ==
    \A r \in RequestIds :
        (Called(r) /\ history[r].created /\ ~history[r].published) =>
            /\ IsTemporaryFailure(history[r].result)
            /\ requests[r] # NoItem
            /\ requests[r].status = "PENDING"
            /\ EnvelopesOf(r) = {}

\* a call whose publish failed has returned, and the consumer has since finished a message
C4_Witness ==
    \E r \in RequestIds :
        /\ Called(r) /\ history[r].created /\ ~history[r].published
        /\ \E q \in RequestIds : requests[q] # NoItem /\ requests[q].status # "PENDING"

\* C5: ingest_trade returns accepted if and only if both the lifecycle write and the
\* publish succeeded, and temporary_failure otherwise; the accepted result carries the
\* generated request_id and the submitted trade_id and version.
C5_AcceptedIffBothWritesSucceeded ==
    \A r \in RequestIds :
        Called(r) =>
            LET result == history[r].result
            IN  /\ result.status = "accepted" <=> (history[r].created /\ history[r].published)
                /\ result.status # "accepted" => IsTemporaryFailure(result)
                /\ result.status = "accepted" =>
                      /\ result.request_id = r
                      /\ result.trade_id = history[r].trade[1].trade_id
                      /\ result.version = history[r].trade[1].version
                      /\ requests[r] # NoItem /\ requests[r].request_id = result.request_id
                      /\ \E m \in EnvelopesOf(result.request_id) :
                            m.trade_id = result.trade_id /\ m.version = result.version

\* one call has been accepted and another has returned temporary_failure
C5_Witness ==
    \E r, q \in RequestIds :
        /\ Called(r) /\ history[r].result.status = "accepted"
        /\ Called(q) /\ history[q].result.status = "temporary_failure"

\* C6: every envelope in the channel carries a request_id whose PENDING record had been
\* written before, with the same trade_id and version.
C6_RecordWrittenBeforePublish ==
    \A m \in Envelopes :
        /\ requests[m.request_id] # NoItem
        /\ requests[m.request_id].trade_id = m.trade_id
        /\ requests[m.request_id].version = m.version

\* an envelope is in the channel while its record is still PENDING
C6_Witness == \E m \in Envelopes : requests[m.request_id].status = "PENDING"

\* C7: admission applies no business rule: a call in which neither store operation
\* fails ends accepted with its envelope in the channel, whatever the maturity date
\* and the version, and no call returns anything but accepted or temporary_failure.
C7_NoValidationAtAdmission ==
    [][\A r \in RequestIds :
          (~Called(r) /\ Called(r)') =>
              /\ history'[r].result.status \in {"accepted", "temporary_failure"}
              /\ faults' = faults =>
                    /\ history'[r].result.status = "accepted"
                    /\ EnvelopesOf(r)' # {}]_vars

\* a submission whose maturity date is already past has been accepted and published
C7_Witness ==
    \E r \in RequestIds :
        /\ Called(r) /\ history[r].result.status = "accepted"
        /\ DateLT(history[r].trade[1].maturity_date, today)
        /\ EnvelopesOf(r) # {}

ValidationErrors == {"MaturityDateExpiredError", "LowerVersionError"}

\* C8: a step of handle_message on a rejected message leaves the record store exactly
\* as it was, and its lifecycle update, when it goes through, sets the record to FAILED
\* with the rejection's reason.
C8_RejectionLeavesStoreUntouched ==
    [][\A w \in Workers :
          /\ (worker[w].pc = "idle" /\ worker'[w].pc = "rejected") => trades' = trades
          /\ (worker[w].pc = "rejected" /\ worker'[w].pc = "idle") =>
                /\ trades' = trades
                /\ worker[w].exc.error \in ValidationErrors
                /\ faults' = faults =>
                      /\ requests'[worker[w].msg.request_id].status = "FAILED"
                      /\ requests'[worker[w].msg.request_id].failure_reason = worker[w].exc]_vars

\* a request has ended FAILED with a reason and no row of its (trade_id, version) exists
C8_Witness ==
    \E r \in RequestIds :
        /\ requests[r] # NoItem
        /\ requests[r].status = "FAILED"
        /\ requests[r].failure_reason.error \in ValidationErrors
        /\ Matching(trades, requests[r].trade_id, requests[r].version) = {}

\* C9: a lifecycle record with status SUCCESS has a committed row for its
\* (trade_id, version) in the record store.
C9_SuccessHasCommittedRow ==
    \A r \in RequestIds :
        (requests[r] # NoItem /\ requests[r].status = "SUCCESS") =>
            Matching(trades, requests[r].trade_id, requests[r].version) # {}

\* a request has ended SUCCESS
C9_Witness ==
    \E r \in RequestIds : requests[r] # NoItem /\ requests[r].status = "SUCCESS"

\* C10: a lifecycle record's status only moves from PENDING to SUCCESS or to FAILED;
\* once it is SUCCESS or FAILED no step changes it, a repeated delivery included.
C10_TerminalStatusIsFinal ==
    [][\A r \in RequestIds :
          (requests[r] # NoItem /\ requests'[r].status # requests[r].status) =>
              /\ requests[r].status = "PENDING"
              /\ requests'[r].status \in {"SUCCESS", "FAILED"}]_vars

\* C11: handling the identical envelope twice in a row leaves the row of its
\* (trade_id, version) after the second run exactly as it was after the first, and the
\* second run adds no row.
C11_SecondRunChangesNothing ==
    (unit.fn = "handle_message" /\ Len(unit.runs) = 2) =>
        /\ Matching(unit.runs[2], unit.msg.trade_id, unit.msg.version)
              = Matching(unit.runs[1], unit.msg.trade_id, unit.msg.version)
        /\ Cardinality(unit.runs[2]) = Cardinality(unit.runs[1])

\* the envelope was handled twice, the first run wrote its row over a row that another
\* submission of the same (trade_id, version) had left
C11_Witness ==
    /\ unit.fn = "handle_message" /\ Len(unit.runs) = 2
    /\ unit.runs[1] # unit.store
    /\ Matching(unit.store, unit.msg.trade_id, unit.msg.version) # {}
    /\ \E row \in Matching(unit.runs[2], unit.msg.trade_id, unit.msg.version) :
          /\ row.counterparty_id = unit.msg.counterparty_id
          /\ row.updated_at > row.created_at

\* the row of (trade_id, version) holds the four submitted fields of this lifecycle item
RowHoldsFieldsOf(rows, item) ==
    \E row \in Matching(rows, item.trade_id, item.version) :
        /\ row.counterparty_id = item.counterparty_id
        /\ row.book_id = item.book_id
        /\ isoformat(row.maturity_date) = item.maturity_date
        /\ isoformat(row.created_date) = item.created_date

\* C12: once a later-sent accepted submission of a (trade_id, version) has been
\* persisted and the row holds its fields, committing a repeated delivery of an
\* earlier-sent submission of the same pair does not replace them.
C12_EarlierDuplicateDoesNotReplace ==
    [][\A w \in Workers, r \in RequestIds :
          (/\ worker[w].pc = "accepted" /\ worker'[w].pc = "committed"
           /\ worker[w].msg.request_id < r
           /\ requests[r] # NoItem
           /\ requests[r].status = "SUCCESS"
           /\ requests[r].trade_id = worker[w].msg.trade_id
           /\ requests[r].version = worker[w].msg.version
           /\ RowHoldsFieldsOf(trades, requests[r]))
          => RowHoldsFieldsOf(trades', requests[r])]_vars

\* worker w takes an envelope in this step / ends the message it was handling
Takes(w) == worker[w].pc = "idle" /\ worker'[w].pc \in {"rejected", "accepted"}

Handling(w) == worker[w].pc \in {"rejected", "accepted", "committed"}

OtherRows(rows, trade_id) == { row \in rows : row.trade_id # trade_id }

HasHigherVersion(rows, trade) ==
    \E row \in rows : row.trade_id = trade.trade_id /\ trade.version < row.version

C14_ExpiryCheckedFirst ==
    [][\A w \in Workers :
          /\ (Takes(w) /\ DateLT(worker'[w].trade_create.maturity_date, today)) =>
                /\ worker'[w].pc = "rejected"
                /\ worker'[w].exc.error = "MaturityDateExpiredError"
          /\ (/\ worker[w].pc = "rejected" /\ worker'[w].pc = "idle" /\ faults' = faults
              /\ DateLT(worker[w].trade_create.maturity_date, today)) =>
                /\ requests'[worker[w].msg.request_id].status = "FAILED"
                /\ requests'[worker[w].msg.request_id].failure_reason.error
                      = "MaturityDateExpiredError"]_vars

\* an expired message whose version is below the persisted maximum has been marked
\* FAILED with the maturity reason
C14_Witness ==
    \E r \in RequestIds :
        /\ requests[r] # NoItem
        /\ requests[r].status = "FAILED"
        /\ requests[r].failure_reason.error = "MaturityDateExpiredError"
        /\ DateLT(fromisoformat(requests[r].maturity_date), today)
        /\ HasHigherVersion(trades, requests[r])

RowsOf(rows, trade_id) == { row \in rows : row.trade_id = trade_id }

\* worker w commits the row of its message in this step
Commits(w) == worker[w].pc = "accepted" /\ worker'[w].pc = "committed"

\* C15: when the consumer commits an accepted submission that passed validation, the
\* one row of its (trade_id, version) holds the submitted counterparty_id, book_id,
\* maturity_date and created_date; when no row of the trade_id existed the action is
\* INSERT and the trade_id has exactly one row afterwards.
C15_PersistedRowMatchesSubmission ==
    [][\A w \in Workers :
          Commits(w) =>
             LET submitted == history[worker[w].msg.request_id].trade[1]
                 stored == Matching(trades', submitted.trade_id, submitted.version)
             IN  /\ history[worker[w].msg.request_id].result.status = "accepted"
                 /\ Cardinality(stored) = 1
                 /\ \A row \in stored :
                       /\ row.counterparty_id = submitted.counterparty_id
                       /\ row.book_id = submitted.book_id
                       /\ row.maturity_date = submitted.maturity_date
                       /\ row.created_date = submitted.created_date
                 /\ RowsOf(trades, submitted.trade_id) = {} =>
                       /\ worker[w].action = "insert"
                       /\ Cardinality(RowsOf(trades', submitted.trade_id)) = 1]_vars

\* a first version has been committed as an insert and its row carries the submitted
\* dates
C15_Witness ==
    \E w \in Workers :
        /\ worker[w].pc = "committed"
        /\ worker[w].action = "insert"
        /\ Cardinality(RowsOf(trades, worker[w].msg.trade_id)) = 1
        /\ \E row \in RowsOf(trades, worker[w].msg.trade_id) :
              /\ row.maturity_date = history[worker[w].msg.request_id].trade[1].maturity_date
              /\ row.created_date = history[worker[w].msg.request_id].trade[1].created_date
              /\ row.maturity_date # row.created_date

\* C16: a lifecycle record carries a failure_reason exactly when its status is FAILED,
\* and the reason of a FAILED record is a non-empty message.
C16_ReasonIffFailed ==
    \A r \in RequestIds :
        requests[r] # NoItem =>
            /\ ("failure_reason" \in DOMAIN requests[r]) <=> (requests[r].status = "FAILED")
            /\ requests[r].status = "FAILED" => requests[r].failure_reason.text # ""

\* a record is FAILED for its version although the row of its (trade_id, version) is
\* persisted: its envelope was accepted first and rejected when delivered again
C16_Witness ==
    \E r \in RequestIds :
        /\ requests[r] # NoItem
        /\ requests[r].status = "FAILED"
        /\ requests[r].failure_reason.error = "LowerVersionError"
        /\ Matching(trades, requests[r].trade_id, requests[r].version) # {}

Keys(rows) == { <<row.trade_id, row.version>> : row \in rows }

\* C17: the record store holds one row per (trade_id, version), and no step removes a
\* (trade_id, version) from it.
C17_KeysUniqueAndOnlyGrow ==
    [][/\ Keys(trades) \subseteq Keys(trades')
       /\ Cardinality(Keys(trades')) = Cardinality(trades')]_vars

\* two versions of a trade are persisted and a repeated delivery has just been committed
\* over its existing row
C17_Witness ==
    \E w \in Workers :
        /\ worker[w].pc = "committed"
        /\ worker[w].action = "upsert"
        /\ requests[worker[w].msg.request_id].status = "SUCCESS"
        /\ Cardinality(RowsOf(trades, worker[w].msg.trade_id)) = 2

Upserted == unit.fn = "upsert" /\ unit.pc = "done"

HoldsFieldsOf(row, trade) ==
    /\ row.trade_id = trade.trade_id
    /\ row.version = trade.version
    /\ row.counterparty_id = trade.counterparty_id
    /\ row.book_id = trade.book_id
    /\ row.maturity_date = trade.maturity_date
    /\ row.created_date = trade.created_date

\* C18: upsert on a store with a row of (trade_id, version) leaves as many rows, that
\* row with the submitted counterparty_id, book_id, maturity_date and created_date and
\* its created_at as before; on a store without one it adds one row with the submitted
\* key and fields; every other row is in the result as it was.
C18_UpsertFrame ==
    Upserted =>
        LET before == Matching(unit.rows, unit.trade.trade_id, unit.trade.version)
            after == Matching(unit.result, unit.trade.trade_id, unit.trade.version)
        IN  /\ unit.rows \ before = unit.result \ after
            /\ Cardinality(after) = 1
            /\ \A row \in after : HoldsFieldsOf(row, unit.trade)
            /\ before # {} =>
                  /\ Cardinality(unit.result) = Cardinality(unit.rows)
                  /\ \A old \in before, row \in after : row.created_at = old.created_at
            /\ before = {} => Cardinality(unit.result) = Cardinality(unit.rows) + 1

\* upsert has overwritten the fields of an existing row, next to a row that it left alone
C18_Witness ==
    /\ Upserted
    /\ \E old \in Matching(unit.rows, unit.trade.trade_id, unit.trade.version) :
          /\ ~HoldsFieldsOf(old, unit.trade)
          /\ old \notin unit.result
    /\ Cardinality(unit.result) > 1

\* C19: no two workers are handling messages of the same trade_id at a time; a worker
\* takes a message only when no message of that trade_id is being handled; and no row
\* is inserted below a version of its trade_id that is already committed.
C19_OneWorkerPerTradeId ==
    [][/\ \A w \in Workers, u \in Workers :
             (w # u /\ Handling(w) /\ Handling(u)) =>
                 worker[w].msg.trade_id # worker[u].msg.trade_id
       /\ \A w \in Workers :
             /\ Takes(w) =>
                   \A u \in Workers :
                       Handling(u) => worker[u].msg.trade_id # worker'[w].msg.trade_id
             /\ (Commits(w) /\ Keys(trades') # Keys(trades)) =>
                   ~HasHigherVersion(trades, worker[w].trade_create)]_vars

\* two workers are each between reading the max version and committing, on messages
\* of different trade_ids
C19_Witness ==
    \E w \in Workers, u \in Workers :
        /\ worker[w].pc = "accepted"
        /\ worker[u].pc = "accepted"
        /\ worker[w].msg.trade_id # worker[u].msg.trade_id

\* C20: a shutdown signal stops a consumer only between messages: no step takes a
\* worker that is handling a message (validated, or row committed and lifecycle record
\* not yet updated) to stopped.
C20_StopsOnlyBetweenMessages ==
    [][\A w \in Workers :
          (worker[w].pc # "stopped" /\ worker'[w].pc = "stopped") => ~Handling(w)]_vars

\* worker w, stopped, is started again in this step
Restarts(w) == worker[w].pc = "stopped" /\ worker'[w].pc # "stopped"

\* C21: a message whose row was not yet committed when its consumer was stopped is
\* delivered again after the restart: its partition resumes before that message.
C21_InFlightMessageRedelivered ==
    [][\A w \in Workers :
          (Restarts(w) /\ worker[w].was.pc = "accepted") =>
              pos'[PartitionOf(worker[w].was.msg.trade_id)]
                  < pos[PartitionOf(worker[w].was.msg.trade_id)]]_vars

\* an operation of handle_message raises in this step and the consume loop catches it
Raises(w) == Handling(w) /\ worker'[w].pc = "idle" /\ faults' = faults + 1

\* C22 as stated: when handle_message raises an unexpected exception the message counts
\* as consumed, the loop goes on, no trade row is committed for that message and the
\* lifecycle record is left as it was.
C22_ExceptionLeavesNoRow ==
    [][\A w \in Workers :
          Raises(w) =>
              /\ worker'[w] = Idle
              /\ pos' = pos /\ committed' = committed /\ log' = log
              /\ requests' = requests
              /\ trades' = trades
              /\ worker[w].pc # "committed"]_vars

\* C22, amended: no trade row is committed for the message when the exception is raised
\* before the commit has returned; raised by the lifecycle update after the commit, it
\* leaves the committed row in place.
C22_ExceptionConsumesMessage ==
    [][\A w \in Workers :
          Raises(w) =>
              /\ worker'[w] = Idle
              /\ pos' = pos /\ committed' = committed /\ log' = log
              /\ requests' = requests
              /\ trades' = trades
              /\ worker[w].pc = "committed" =>
                    Matching(trades', worker[w].msg.trade_id, worker[w].msg.version) # {}]_vars

\* the only submission was accepted, its envelope was fetched and its commit raised: no
\* row, the record PENDING, the consumer idle
C22_Witness ==
    /\ nextId = 2 /\ faults > 0
    /\ Called(1)
    /\ history[1].result.status = "accepted"
    /\ requests[1].status = "PENDING"
    /\ trades = {}
    /\ \A w \in Workers : worker[w] = Idle
    /\ \E p \in Partitions : pos[p] = 1 /\ committed[p] = 0
    /\ ~DateLT(history[1].trade[1].maturity_date, today)

\* C23: a lifecycle record older than its retention window is not found by
\* get_by_request_id, whatever its status.
C23_ExpiredRecordNotFound ==
    (unit.fn = "get_by_request_id" /\ unit.pc = "done" /\ unit.ttl < now) =>
        unit.result = Returned(None)

\* C24: update_status for a request_id that has no record in the table leaves it
\* without one.
C24_UpdateCreatesNoRecord ==
    (unit.fn = "update_status" /\ unit.pc = "done" /\ unit.removed) =>
        unit.table[unit.request_id] = NoItem

\* a step of ingest_trade: a call starts, fails at its first write, or ends
IngestSteps == call' # call \/ nextId' # nextId

\* C25: no step of ingest_trade, whatever its outcome, and no status query changes,
\* adds or removes a trade row; a change of the record store is a commit by a consumer.
C25_OnlyConsumerWritesTrades ==
    [][/\ IngestSteps => trades' = trades
       /\ trades' # trades => \E w \in Workers : Commits(w)]_vars

\* with a row in the record store, one call has been accepted and another has returned
\* a temporary failure
C25_Witness ==
    /\ trades # {}
    /\ \E r \in RequestIds :
          Called(r) /\ history[r].result.status = "accepted"
    /\ \E r \in RequestIds :
          Called(r) /\ history[r].result.status = "temporary_failure"

\* C26: with the consumer running and its store operations succeeding, every
\* submission that was answered accepted eventually has its lifecycle record at SUCCESS
\* or FAILED.
AnsweredAccepted(r) == IF Called(r) THEN history[r].result.status = "accepted" ELSE FALSE

LeftPending(r) ==
    IF requests[r] = NoItem THEN FALSE ELSE requests[r].status \in {"SUCCESS", "FAILED"}

C26_AcceptedEventuallyTerminal ==
    \A r \in RequestIds : AnsweredAccepted(r) ~> LeftPending(r)

\* one accepted submission has ended SUCCESS and another FAILED
C26_Witness ==
    /\ \E r \in RequestIds :
          /\ Called(r) /\ history[r].result.status = "accepted"
          /\ requests[r].status = "SUCCESS"
    /\ \E r \in RequestIds :
          /\ Called(r) /\ history[r].result.status = "accepted"
          /\ requests[r].status = "FAILED"

\* the date on which the request of envelope m was admitted
AdmissionDate(m) == DateOfDay(requests[m.request_id].created_at \div SecondsPerDay)

\* envelope m matured between its admission and now
ExpiredInTransit(m) ==
    /\ ~DateLT(fromisoformat(m.maturity_date), AdmissionDate(m))
    /\ DateLT(fromisoformat(m.maturity_date), today)

\* C27: a message whose maturity_date was not before its admission date but is before
\* the date on which it is processed is rejected with the maturity reason, its lifecycle
\* record is set to FAILED with that reason, and its processing persists no row.
C27_ExpiryJudgedAtProcessing ==
    [][\A w \in Workers :
          /\ (Takes(w) /\ ExpiredInTransit(worker'[w].msg)) =>
                /\ worker'[w].pc = "rejected"
                /\ worker'[w].exc.error = "MaturityDateExpiredError"
                /\ trades' = trades
          /\ (/\ worker[w].pc = "rejected"
              /\ worker[w].exc.error = "MaturityDateExpiredError"
              /\ worker'[w].pc = "idle") =>
                /\ requests'[worker[w].msg.request_id].status = "FAILED"
                /\ requests'[worker[w].msg.request_id].failure_reason = worker[w].exc
                /\ trades' = trades]_vars

\* a request admitted on day 0 with maturity on day 0 was processed a day later: FAILED
\* with the maturity reason, and no row of its trade_id and version
C27_Witness ==
    \E r \in RequestIds :
        /\ requests[r] # NoItem
        /\ requests[r].created_at \div SecondsPerDay = 0
        /\ requests[r].maturity_date = isoformat(DateOfDay(0))
        /\ requests[r].status = "FAILED"
        /\ requests[r].failure_reason.error = "MaturityDateExpiredError"
        /\ requests[r].failure_reason.today = DateOfDay(1)
        /\ \A row \in trades :
              ~(row.trade_id = requests[r].trade_id /\ row.version = requests[r].version)

\* worker w's update_status call returns
Updates(w) ==
    /\ worker[w].pc \in {"rejected", "committed"}
    /\ worker'[w].pc = "idle"
    /\ faults' = faults

\* C28: update_status is applied to a request_id at most once over a run, repeated
\* deliveries included: when the call is made the record has not been updated before.
C28_UpdatedAtMostOnce ==
    [][\A w \in Workers :
          Updates(w) => "updated_at" \notin DOMAIN requests[worker[w].msg.request_id]]_vars

\* C29: when the lifecycle update to SUCCESS raises after the commit, the committed row
\* stays, the envelope is not fetched again, the worker goes on to the next message and
\* the lifecycle record is left as it was, so PENDING stays PENDING.
C29_FailedUpdateKeepsRow ==
    [][\A w \in Workers :
          (worker[w].pc = "committed" /\ Raises(w)) =>
              /\ trades' = trades
              /\ Matching(trades', worker[w].msg.trade_id, worker[w].msg.version) # {}
              /\ requests' = requests
              /\ pos' = pos /\ committed' = committed
              /\ worker'[w] = Idle]_vars

\* the only submission was accepted and its row committed, the update to SUCCESS raised:
\* the row is persisted, the record PENDING, the envelope consumed and the consumer idle
C29_Witness ==
    /\ nextId = 2 /\ faults > 0
    /\ Called(1)
    /\ history[1].result.status = "accepted"
    /\ requests[1].status = "PENDING"
    /\ Matching(trades, requests[1].trade_id, requests[1].version) # {}
    /\ \A w \in Workers : worker[w] = Idle
    /\ \E p \in Partitions : pos[p] = 1 /\ committed[p] = 0

ChainRan == unit.fn = "ValidationChain" /\ unit.pc = "done"

\* C30 as stated: for every message the validation chain makes exactly one record-store
\* read, the max-version lookup, whichever validator decides the outcome.
C30_ExactlyOneRead == ChainRan => Len(unit.result.reads) = 1

\* C30, amended: the chain makes no record-store read for a message whose maturity_date
\* is before today, which the expiry validator rejects, and exactly one, the max-version
\* lookup for the message's trade_id, for any other message, whether the version
\* validator then rejects it or returns an action.
C30_OneReadUnlessExpired ==
    ChainRan =>
        LET r == unit.result
        IN  /\ r.outcome = ValidationChain(unit.trade, unit.rows, today)
            /\ IF DateLT(unit.trade.maturity_date, today)
               THEN /\ r.reads = <<>>
                    /\ r.outcome.raised
                    /\ r.outcome.exc.error = "MaturityDateExpiredError"
               ELSE /\ r.reads = <<[select |-> "max(version)",
                                    trade_id |-> unit.trade.trade_id]>>
                    /\ r.outcome.raised => r.outcome.exc.error = "LowerVersionError"
                    /\ ~r.outcome.raised => r.outcome.value \in {"insert", "upsert"}

\* an expired message was rejected on a store that holds a higher version of its
\* trade_id, without a read
C30_Witness ==
    /\ ChainRan
    /\ DateLT(unit.trade.maturity_date, today)
    /\ HasHigherVersion(unit.rows, unit.trade)
    /\ unit.result.reads = <<>>

\* C31: the action field of an envelope is advisory: handle_message run from the same
\* store on envelopes that differ only in it ends with the same rows and the same
\* lifecycle status, and the envelope admission builds carries "insert".
C31_ActionLabelAdvisory ==
    (unit.fn = "action_label" /\ unit.pc = "done") =>
        /\ unit.msg.action = "insert"
        /\ unit.result["insert"] = unit.result["upsert"]

\* both labels persisted a row that the store did not hold before
C31_Witness ==
    /\ unit.fn = "action_label" /\ unit.pc = "done"
    /\ unit.result["upsert"].status = "SUCCESS"
    /\ Matching(unit.store, unit.msg.trade_id, unit.msg.version) = {}
    /\ Matching(unit.result["upsert"].rows, unit.msg.trade_id, unit.msg.version) # {}

\* how many envelopes carrying request_id r were sent
Sends(r) ==
    Cardinality({ at \in Partitions \X (1..MaxRequests) :
                    /\ at[2] <= Len(log[at[1]])
                    /\ log[at[1]][at[2]].request_id = r })

\* a store or channel operation of ingest_trade raises
AdmissionFails == faults' = faults + 1 /\ worker' = worker

\* the request_id of the ingest_trade call that takes this step
Admitting == IF call.pc = "idle" THEN nextId ELSE call.request_id

\* C32: ingest_trade does not retry: the step in which its lifecycle write or its publish
\* raises ends the call with temporary_failure and sends nothing; every send is the one
\* envelope of the call in progress, whose request_id was not sent before; a call that
\* has returned writes no record and keeps its result; and a new call takes a request_id
\* that no call, record or envelope has used and writes a new PENDING record under it.
C32_NoInternalRetry ==
    [][/\ AdmissionFails =>
             /\ call'.pc = "idle"
             /\ history'[Admitting].result = TradeTemporaryFailure
             /\ log' = log
       /\ log' # log =>
             /\ call.pc = "publish" /\ call'.pc = "idle"
             /\ ~Called(call.request_id)
             /\ Sends(call.request_id) = 0
             /\ \A r \in RequestIds :
                   Sends(r)' = Sends(r) + (IF r = call.request_id THEN 1 ELSE 0)
       /\ \A r \in RequestIds :
             Called(r) =>
                 /\ requests[r] = NoItem => requests'[r] = NoItem
                 /\ history'[r] = history[r]
       /\ (call.pc = "idle" /\ call'.pc = "publish") =>
             /\ call'.request_id = nextId
             /\ ~Called(nextId) /\ requests[nextId] = NoItem /\ Sends(nextId) = 0
             /\ requests'[nextId].status = "PENDING"]_vars

\* a call failed at the publish and the caller's retry of the same submission was
\* accepted under a new request_id: two records, one envelope
C32_Witness ==
    \E r, q \in RequestIds :
        /\ r < q
        /\ Called(r) /\ history[r].created /\ ~history[r].published
        /\ Called(q) /\ history[q].result.status = "accepted"
        /\ history[q].trade = history[r].trade
        /\ requests[r] # NoItem /\ requests[q] # NoItem
        /\ Sends(r) = 0 /\ Sends(q) = 1

StoresHandled == unit.fn = "handle_message_stores" /\ unit.pc = "done"

\* C33: without a lifecycle-store client, or on an envelope without a request_id,
\* handle_message leaves the record store as it does for the full envelope with a
\* client, and leaves the lifecycle table untouched.
C33_NoClientStillPersists ==
    (StoresHandled /\ (~unit.dynamodb_client \/ "request_id" \notin DOMAIN unit.msg)) =>
        /\ unit.result.rows
              = handle_message_stores(unit.store, unit.table, Payload(1, unit.trade),
                                      TRUE, today, now).rows
        /\ unit.result.table = unit.table

\* without a client a new row was persisted and the record is still PENDING
C33_Witness ==
    /\ StoresHandled
    /\ ~unit.dynamodb_client
    /\ Matching(unit.store, unit.trade.trade_id, unit.trade.version) = {}
    /\ Matching(unit.result.rows, unit.trade.trade_id, unit.trade.version) # {}
    /\ unit.result.table[1].status = "PENDING"

\* C34: get_max_version(trade_id) returns no value exactly when the store has no row
\* of that trade_id, rows of other trade_ids or not, and otherwise the largest version
\* among the rows of that trade_id.
C34_MaxVersionOfTradeId ==
    (unit.fn = "get_max_version" /\ unit.pc = "done") =>
        LET mine == { row \in unit.rows : row.trade_id = unit.trade_id }
        IN  /\ unit.result = None <=> mine = {}
            /\ mine # {} =>
                  /\ \E row \in mine : row.version = unit.result[1]
                  /\ \A row \in mine : row.version <= unit.result[1]

\* no value for a trade_id without rows in a store that holds rows of another trade_id
C34_Witness ==
    /\ unit.fn = "get_max_version" /\ unit.pc = "done"
    /\ unit.rows # {}
    /\ \A row \in unit.rows : row.trade_id # unit.trade_id
    /\ unit.result = None

\* the sequence lists exactly these rows, each once
Lists(listed, rows) ==
    /\ Len(listed) = Cardinality(rows)
    /\ { listed[i] : i \in 1..Len(listed) } = rows

\* C35: get_all returns every row once, ordered by (trade_id, version); get_all_versions
\* returns exactly the rows of the trade_id, by ascending version; the store is the same
\* after either.
C35_ListsOrdered ==
    /\ (unit.fn = "get_all" /\ unit.pc = "done") =>
          /\ Lists(unit.result, unit.rows)
          /\ \A i, j \in 1..Len(unit.result) :
                i < j => RowBefore(unit.result[i], unit.result[j])
          /\ unit.after = unit.rows
    /\ (unit.fn = "get_all_versions" /\ unit.pc = "done") =>
          /\ Lists(unit.result, { row \in unit.rows : row.trade_id = unit.trade_id })
          /\ \A i, j \in 1..Len(unit.result) :
                i < j => unit.result[i].version < unit.result[j].version
          /\ unit.after = unit.rows

\* two versions of one trade_id were listed, the lower one first
C35_Witness ==
    /\ unit.fn = "get_all_versions" /\ unit.pc = "done"
    /\ Len(unit.result) = 2
    /\ unit.result[1].version < unit.result[2].version

\* C36: once a delivery of a message has been rejected, every later delivery of it is
\* rejected and writes no row, whatever other envelopes were handled and however many
\* days passed in between; and a lifecycle record that is FAILED stays FAILED.
C36_RejectionPermanent ==
    [][(unit.fn = "deliveries" /\ unit'.fn = "deliveries") =>
          /\ (unit.rejected /\ unit'.delivered = unit.delivered + 1) =>
                /\ unit'.last
                /\ unit'.rows = unit.rows
          /\ unit.table[1].status = "FAILED" => unit'.table[1].status = "FAILED"]_vars

\* the message was rejected twice, with another envelope handled besides, and its
\* record is FAILED
C36_Witness ==
    /\ unit.fn = "deliveries"
    /\ unit.delivered = 2 /\ unit.others >= 1
    /\ unit.rejected /\ unit.last
    /\ unit.rows # {}
    /\ unit.table[1].status = "FAILED"

VersionsOf(rows, trade_id) == { row.version : row \in { r \in rows : r.trade_id = trade_id } }

\* C37: a step that changes the record store either adds one row whose version is above
\* every version stored for its trade_id, or replaces the one row that holds the
\* maximum version of its trade_id by a row of the same key; so a row below the maximum
\* is never written again and the maximum of a trade_id never goes down.
C37_OnlyMaximumWritten ==
    [][trades' # trades =>
          LET added == trades' \ trades
              dropped == trades \ trades'
          IN  /\ \E row \in added :
                    /\ added = {row}
                    /\ \A v \in VersionsOf(trades, row.trade_id) : v <= row.version
                    /\ IF dropped = {}
                       THEN row.version \notin VersionsOf(trades, row.trade_id)
                       ELSE \E old \in dropped :
                               /\ dropped = {old}
                               /\ old.trade_id = row.trade_id /\ old.version = row.version
              /\ \A row \in trades :
                    \E kept \in trades' :
                        /\ kept.trade_id = row.trade_id
                        /\ kept.version >= row.version]_vars

\* two submissions of one (trade_id, version) with different fields have both ended
\* SUCCESS: the second overwrote the row of the first, the maximum of its trade_id
C37_Witness ==
    \E r, q \in RequestIds :
        /\ requests[r] # NoItem /\ requests[q] # NoItem
        /\ requests[r].status = "SUCCESS" /\ requests[q].status = "SUCCESS"
        /\ requests[r].trade_id = requests[q].trade_id
        /\ requests[r].version = requests[q].version
        /\ requests[r].counterparty_id # requests[q].counterparty_id
        /\ Cardinality(trades) = 1

\* C38: a message passes validation only if its maturity_date is not before the date of
\* that moment, and the row a worker then commits carries that maturity_date and no
\* stored expired attribute; whether a row reads as expired is computed from its
\* maturity_date at the read.
C38_WrittenRowsWereUnexpired ==
    [][/\ \A w \in Workers :
             /\ (Takes(w) /\ worker'[w].pc = "accepted") =>
                   ~DateLT(worker'[w].trade_create.maturity_date, today)
             /\ Commits(w) =>
                   \E row \in trades' :
                       /\ row.trade_id = worker[w].trade_create.trade_id
                       /\ row.version = worker[w].trade_create.version
                       /\ row.maturity_date = worker[w].trade_create.maturity_date
                       /\ "expired" \notin DOMAIN row
       /\ trades' # trades => \E w \in Workers : Commits(w)]_vars

\* a row that was written reads as expired on a later day
C38_Witness == \E row \in trades : expired(row, today)

\* the attributes update_status assigns
Assigned(reason_given) ==
    {"status", "updated_at"} \cup (IF reason_given THEN {"failure_reason"} ELSE {})

\* item after differs from item before in the assigned attributes at most
OnlyAssignedChange(before, after, reason_given) ==
    /\ DOMAIN after = DOMAIN before \cup Assigned(reason_given)
    /\ \A name \in DOMAIN before \ Assigned(reason_given) : after[name] = before[name]

\* C39: update_status on a stored lifecycle record assigns status, updated_at and, when
\* a reason is given, failure_reason, and leaves every other attribute as it was:
\* request_id, trade_id, version, the trade snapshot, created_at and ttl.
C39_UpdateStatusFrame ==
    [][/\ (/\ unit.fn = "update_status" /\ unit.pc = "input" /\ unit'.pc = "done"
           /\ ~unit.removed) =>
             /\ OnlyAssignedChange(unit.table[1], unit'.table[1], FALSE)
             /\ unit'.table[1].ttl = unit.ttl
       /\ (/\ unit.fn = "handle_message_stores" /\ unit.pc = "input" /\ unit'.pc = "done"
           /\ unit.dynamodb_client /\ "request_id" \in DOMAIN unit.msg) =>
             /\ unit'.result.table[1].status \in {"SUCCESS", "FAILED"}
             /\ OnlyAssignedChange(unit.table[1], unit'.result.table[1],
                                   unit'.result.table[1].status = "FAILED")
             /\ unit'.result.table[1].ttl = unit.table[1].ttl]_vars

\* a record was updated more than a day after its creation and its ttl is still seven
\* days after its creation
C39_Witness ==
    /\ unit.fn = "update_status" /\ unit.pc = "done" /\ ~unit.removed
    /\ unit.table[1].updated_at = now
    /\ unit.table[1].updated_at > unit.table[1].created_at + SecondsPerDay
    /\ unit.table[1].ttl = unit.table[1].created_at + TTL_SECONDS

\* the producer was started successfully and has not been stopped
InProducerWindow == unit.pc = "serving" /\ unit.started

\* an ingest_trade call is made in this step
Ingests == unit.fn = "lifespan" /\ unit'.fn = "lifespan" /\ unit'.next_id = unit.next_id + 1

\* C40: an ingest_trade call made outside the window between a successful start_producer
\* and the next stop_producer (before the start, after a failed start, after the stop)
\* sends nothing and returns temporary_failure with its PENDING record written; a call
\* inside the window sends its envelope and is accepted.
C40_ProducerWindow ==
    [][Ingests =>
          /\ unit'.table[unit.next_id] # NoItem
          /\ unit'.table[unit.next_id].status = "PENDING"
          /\ IF InProducerWindow
             THEN /\ unit'.channel # unit.channel
                  /\ unit'.result[1].status = "accepted"
             ELSE /\ unit'.channel = unit.channel
                  /\ unit'.result = Some(TradeTemporaryFailure)]_vars

\* the producer failed to start, the application served, and a call returned
\* temporary_failure with its PENDING record written and nothing sent
C40_Witness ==
    /\ unit.fn = "lifespan" /\ unit.pc = "serving" /\ ~unit.started
    /\ unit.result = Some(TradeTemporaryFailure)
    /\ unit.table[1] # NoItem
    /\ \A p \in Partitions : unit.channel[p] = <<>>

====
